---- MODULE Spec2Model ----
(***************************************************************************)
(* A model of imessage_export.py: the timestamp normalizer, the filename   *)
(* sanitizer, the attachment materializer, the transcript assembler        *)
(* (do_readable_export) and the control flow of main().                    *)
(*                                                                         *)
(* Text is modelled as a sequence of one-character strings.  The object    *)
(* replacement character U+FFFC is the token ORC.  An optional (nullable)  *)
(* value is None (the empty tuple) or Some(v) (a one-element tuple).       *)
(***************************************************************************)
EXTENDS Integers, Sequences, FiniteSets, TLC

VARIABLES
    \* sanitize_filename under test
    san_pc, san_in, san_out, san_again,
    \* apple_timestamp_to_datetime under test
    ts_pc, ts_in, ts_out,
    \* the world do_readable_export runs in: the datastore, the filter, the
    \* source files and the destination tree
    conn, contact_filter, src_files, dirs, files,
    \* do_readable_export: its position and its locals
    pc, chat_i, chat_name, chat_dir, messages, msg_i, attachments, att_i,
    attachment_notes, lines,
    total_messages, total_attachments_copied, exported_chats,
    \* the returned totals, and the number of exports begun
    stats, runs,
    \* main: its position, the parsed flags, the state of the datastore file
    \* and of the attachments folder, the connection, the exit status
    m_pc, readable_only, backup_only, db_state, attachments_path_exists,
    conn_state, exit_status

sanVars == <<san_pc, san_in, san_out, san_again>>
tsVars == <<ts_pc, ts_in, ts_out>>
worldVars == <<conn, contact_filter, src_files>>
fsVars == <<dirs, files>>
chatVars == <<chat_i, chat_name, chat_dir, messages, lines>>
msgVars == <<msg_i, attachments, att_i, attachment_notes>>
totalVars == <<total_messages, total_attachments_copied, exported_chats>>
exVars == <<worldVars, fsVars, pc, chatVars, msgVars, totalVars, stats, runs>>
argVars == <<readable_only, backup_only, db_state, attachments_path_exists>>
mainVars == <<m_pc, argVars, conn_state, exit_status>>
vars == <<sanVars, tsVars, exVars, mainVars>>

(***************************************************************************)
(* Optional values and Python truthiness                                   *)
(***************************************************************************)
None == <<>>
Some(v) == <<v>>
Val(o) == o[1]

\* Python's `s or d` for a nullable string: None and "" are both falsy.
OrStr(o, d) == IF o = None \/ Val(o) = <<>> THEN d ELSE Val(o)

\* Python's truth value of a nullable string.
Truthy(o) == o # None /\ Val(o) # <<>>

(***************************************************************************)
(* Characters                                                              *)
(***************************************************************************)
ORC == "OBJ"

\* The character class [<>:"/\\|?*\x00-\x1f] of sanitize_filename; tab and
\* newline stand for the control characters.
InvalidChars == {"<", ">", ":", "\"", "/", "\\", "|", "?", "*", "\t", "\n"}

\* What \s matches and str.strip() removes.
SpaceChars == {" ", "\t", "\n"}

\* str.lower() on the model's alphabet.
LowerChar(c) ==
    CASE c = "A" -> "a"
      [] c = "B" -> "b"
      [] c = "C" -> "c"
      [] OTHER -> c

Lower(s) == [i \in 1..Len(s) |-> LowerChar(s[i])]

\* Python's `a in b` for strings.
Contains(b, a) ==
    \E i \in 0..(Len(b) - Len(a)) : SubSeq(b, i + 1, i + Len(a)) = a

\* str.startswith
StartsWith(s, p) == Len(s) >= Len(p) /\ SubSeq(s, 1, Len(p)) = p

\* The positions of s that hold no whitespace.
NonSpace(s) == {i \in 1..Len(s) : s[i] \notin SpaceChars}

SetMin(S) == CHOOSE i \in S : \A j \in S : i <= j
SetMax(S) == CHOOSE i \in S : \A j \in S : i >= j

\* str.strip()
Strip(s) ==
    IF NonSpace(s) = {} THEN <<>>
    ELSE SubSeq(s, SetMin(NonSpace(s)), SetMax(NonSpace(s)))

\* str.replace(c, "")
RemoveChar(s, c) == SelectSeq(s, LAMBDA x : x # c)

(***************************************************************************)
(* sanitize_filename                                                       *)
(***************************************************************************)
MaxNameLen == 100

Unknown == <<"U", "n", "k", "n", "o", "w", "n">>

\* re.sub(r'[<>:"/\\|?*\x00-\x1f]', '_', name)
ReplaceInvalid(s) ==
    [i \in 1..Len(s) |-> IF s[i] \in InvalidChars THEN "_" ELSE s[i]]

IsUnderscoreOrSpace(c) == c = "_" \/ c \in SpaceChars

\* re.sub(r'[_\s]+', ' ', sanitized): a character of the class starts a run
\* where the one before it is not of the class; the run becomes one space.
CollapseRuns(s) ==
    LET first(i) == i = 1 \/ ~IsUnderscoreOrSpace(s[i - 1])
        marked == [i \in 1..Len(s) |->
                     IF IsUnderscoreOrSpace(s[i])
                     THEN <<" ", first(i)>>
                     ELSE <<s[i], TRUE>>]
        kept == SelectSeq(marked, LAMBDA p : p[2])
    IN [i \in 1..Len(kept) |-> kept[i][1]]

\* if len(sanitized) > 100: sanitized = sanitized[:100].strip()
TruncateMutant(s) ==
    IF Len(s) > MaxNameLen THEN SubSeq(s, 1, MaxNameLen) ELSE s

Truncate(s) ==
    IF Len(s) > MaxNameLen THEN Strip(SubSeq(s, 1, MaxNameLen)) ELSE s

sanitize_filename(name) ==
    IF ~Truthy(name) THEN Unknown
    ELSE LET sanitized == Truncate(Strip(CollapseRuns(ReplaceInvalid(Val(name)))))
         IN IF sanitized = <<>> THEN Unknown ELSE sanitized

(***************************************************************************)
(* apple_timestamp_to_datetime                                             *)
(*                                                                         *)
(* A raw timestamp is None or Some([q |-> q, r |-> r]), the integer        *)
(* q * 10^9 + r with 0 <= r < 10^9.  The value handed to fromtimestamp is  *)
(* [hi, lo, nano]: hi * 10^9 + lo whole seconds since the Unix epoch and   *)
(* nano / 10^9 of a second (the float's rounding is not modelled).         *)
(***************************************************************************)
Billion == 1000000000

\* datetime.datetime(2001, 1, 1).timestamp(), for a UTC local time zone
APPLE_EPOCH_OFFSET == 978307200

\* The thresholds 1e15 and 1e12, in units of 10^9
NanoThresholdQ == 1000000
SecThresholdQ == 1000

Raw(q, r) == [q |-> q, r |-> r]

\* timestamp == 0
IsZeroTs(t) == t.q = 0 /\ t.r = 0

\* timestamp > k * 1e9
GreaterThanQ(t, k) == t.q > k \/ (t.q = k /\ t.r > 0)

\* timestamp < -(k * 1e9)
LessThanMinusQ(t, k) == t.q < 0 - k

\* timestamp / 1e9 + APPLE_EPOCH_OFFSET
ScaledSum(t) ==
    [hi |-> (t.q + APPLE_EPOCH_OFFSET) \div Billion,
     lo |-> (t.q + APPLE_EPOCH_OFFSET) % Billion,
     nano |-> t.r]

\* timestamp + APPLE_EPOCH_OFFSET
UnscaledSum(t) ==
    [hi |-> t.q + ((t.r + APPLE_EPOCH_OFFSET) \div Billion),
     lo |-> (t.r + APPLE_EPOCH_OFFSET) % Billion,
     nano |-> 0]

\* timestamp > 1e15, elif timestamp > 1e12: tests of the signed value
NeedsScaling(t) ==
    GreaterThanQ(t, NanoThresholdQ) \/ GreaterThanQ(t, SecThresholdQ)

\* datetime.fromtimestamp raises outside the years 1..9999
\* (-62135596800 .. 253402300799 seconds).
MinEpochHi == -63
MinEpochLo == 864403200
MaxEpochHi == 253
MaxEpochLo == 402300799

InDatetimeRange(e) ==
    /\ e.hi > MinEpochHi \/ (e.hi = MinEpochHi /\ e.lo >= MinEpochLo)
    /\ e.hi < MaxEpochHi \/ (e.hi = MaxEpochHi /\ e.lo <= MaxEpochLo)

\* None for "no timestamp"; otherwise the epoch value and whether
\* fromtimestamp returns (a datetime) or raises.
apple_timestamp_to_datetime(timestamp) ==
    IF timestamp = None \/ IsZeroTs(Val(timestamp)) THEN None
    ELSE LET t == Val(timestamp)
             e == IF NeedsScaling(t) THEN ScaledSum(t) ELSE UnscaledSum(t)
         IN Some([epoch |-> e, raises |-> ~InDatetimeRange(e)])

(***************************************************************************)
(* Records of the datastore, as the three queries return them              *)
(***************************************************************************)
Attachment(filename, transfer_name) ==
    [filename |-> filename, transfer_name |-> transfer_name]

Message(id, text, date, me, sender, amt, atts) ==
    [message_id |-> id, text |-> text, message_date |-> date,
     is_from_me |-> me, sender_id |-> sender,
     associated_message_type |-> amt, atts |-> atts]

Chat(id, ident, name, parts, style, msgs) ==
    [chat_id |-> id, chat_identifier |-> ident, display_name |-> name,
     participants |-> parts, chat_style |-> style, msgs |-> msgs]

get_chats_mutant(c) == [i \in 1..Len(c) |-> c[Len(c) + 1 - i]]

\* get_chats: the chats in ROWID order (conn holds them in that order).
get_chats(c) == c

\* a.message_date <= b.message_date in SQLite's order: NULL sorts first.
DateLeq(a, b) ==
    \/ a = None
    \/ /\ b # None
       /\ \/ Val(a).q < Val(b).q
          \/ Val(a).q = Val(b).q /\ Val(a).r <= Val(b).r

get_messages_for_chat_mutant(chat) == {chat.msgs}

\* get_messages_for_chat: ORDER BY m.date ASC names no second key, so every
\* order of the chat's rows that ascends by date is a possible result.
get_messages_for_chat(chat) ==
    LET n == Len(chat.msgs)
        perms == {f \in [1..n -> 1..n] : \A i, j \in 1..n : i # j => f[i] # f[j]}
        ascending(f) ==
            \A i, j \in 1..n :
                i < j => DateLeq(chat.msgs[f[i]].message_date,
                                 chat.msgs[f[j]].message_date)
    IN {[i \in 1..n |-> chat.msgs[f[i]]] : f \in {g \in perms : ascending(g)}}

\* get_attachments_for_message: the joined rows, in row order.
get_attachments_for_message(msg) == msg.atts

\* f"Chat {chat['chat_id']}"
Digit(d) ==
    CASE d = 0 -> "0" [] d = 1 -> "1" [] d = 2 -> "2" [] d = 3 -> "3"
      [] d = 4 -> "4" [] d = 5 -> "5" [] d = 6 -> "6" [] d = 7 -> "7"
      [] d = 8 -> "8" [] d = 9 -> "9"

RECURSIVE IntToStr(_)
IntToStr(n) ==
    IF n < 10 THEN <<Digit(n)>> ELSE Append(IntToStr(n \div 10), Digit(n % 10))

get_chat_display_name(chat) ==
    IF Truthy(chat.display_name) THEN Val(chat.display_name)
    ELSE IF Truthy(chat.participants) THEN Val(chat.participants)
    ELSE IF Truthy(chat.chat_identifier) THEN Val(chat.chat_identifier)
    ELSE <<"C", "h", "a", "t", " ">> \o IntToStr(chat.chat_id)

\* format_reaction: the phrase, or None
format_reaction(associated_message_type) ==
    IF associated_message_type = None THEN None
    ELSE LET code == Val(associated_message_type)
         IN CASE code = 2000 -> Some("Loved")
              [] code = 2001 -> Some("Liked")
              [] code = 2002 -> Some("Disliked")
              [] code = 2003 -> Some("Laughed at")
              [] code = 2004 -> Some("Emphasized")
              [] code = 2005 -> Some("Questioned")
              [] code = 3000 -> Some("Removed love from")
              [] code = 3001 -> Some("Removed like from")
              [] code = 3002 -> Some("Removed dislike from")
              [] code = 3003 -> Some("Removed laugh from")
              [] code = 3004 -> Some("Removed emphasis from")
              [] code = 3005 -> Some("Removed question from")
              [] OTHER -> None

(***************************************************************************)
(* Paths.  A source path is text; a path of the destination tree is the    *)
(* tuple of its components below the destination directory.                *)
(***************************************************************************)
Home == <<"/", "h">>

\* The last position of character c in s, 0 when there is none.
LastIndexOf(s, c) ==
    LET at == {i \in 1..Len(s) : s[i] = c}
    IN IF at = {} THEN 0 ELSE SetMax(at)

\* os.path.expanduser: "~" and "~/..." name the home directory; "~name" of
\* an unknown user is left as it is.
expanduser(path) ==
    IF path # <<>> /\ path[1] = "~" /\ (Len(path) = 1 \/ path[2] = "/")
    THEN Home \o Tail(path)
    ELSE path

\* os.path.basename
basename(path) == SubSeq(path, LastIndexOf(path, "/") + 1, Len(path))

\* os.path.splitext: the extension starts at the last dot of the last
\* component, unless only dots precede it there.
splitext(path) ==
    LET sep == LastIndexOf(path, "/")
        dot == LastIndexOf(path, ".")
    IN IF dot > sep /\ \E i \in (sep + 1)..(dot - 1) : path[i] # "."
       THEN <<SubSeq(path, 1, dot - 1), SubSeq(path, dot, Len(path))>>
       ELSE <<path, <<>>>>

\* os.path.join(dir, name)
join(dir, name) == Append(dir, name)

\* os.path.exists in the destination tree
exists(path) == path \in dirs \/ path \in DOMAIN files

\* os.makedirs(path, exist_ok=True): the directory and its parents
makedirs(ds, path) == ds \cup {SubSeq(path, 1, n) : n \in 0..Len(path)}

(***************************************************************************)
(* copy_attachment_file                                                    *)
(***************************************************************************)
\* The source path to open: line 180-183.
source_path_of(att) ==
    LET source_path == Val(att.filename)
    IN IF StartsWith(source_path, <<"~">>) THEN expanduser(source_path)
       ELSE source_path

\* The early returns of lines 177-186.
cannot_copy(att) ==
    IF ~Truthy(att.filename) THEN TRUE
    ELSE source_path_of(att) \notin src_files

\* dest_name, line 188
dest_name_of(att) ==
    IF Truthy(att.transfer_name) THEN Val(att.transfer_name)
    ELSE basename(source_path_of(att))

\* f"{base}_{counter}{ext}"
numbered(dest_name, counter) ==
    splitext(dest_name)[1] \o <<"_">> \o IntToStr(counter)
        \o splitext(dest_name)[2]

\* The loop of lines 193-196, entered with dest_path already taken: the
\* first counter whose name is free.
RECURSIVE free_counter(_, _, _)
free_counter(dest_dir, dest_name, counter) ==
    IF exists(join(dest_dir, numbered(dest_name, counter)))
    THEN free_counter(dest_dir, dest_name, counter + 1)
    ELSE counter

dest_path_mutant(dest_dir, dest_name) == join(dest_dir, dest_name)

\* dest_path as shutil.copy2 receives it
dest_path_of(dest_dir, dest_name) ==
    IF ~exists(join(dest_dir, dest_name)) THEN join(dest_dir, dest_name)
    ELSE join(dest_dir, numbered(dest_name, free_counter(dest_dir, dest_name, 1)))

(***************************************************************************)
(* do_readable_export                                                      *)
(***************************************************************************)
readable_dir == <<"readable">>

\* The chat of the current iteration of `for chat in chats`
chat == get_chats(conn)[chat_i]

\* The message of the current iteration of `for msg in messages`
msg == messages[msg_i]

\* The attachment of the current iteration of `for att in attachments`
att == attachments[att_i]

att_dir == join(chat_dir, "attachments")

filtered_out_mutant(c) ==
    /\ Truthy(contact_filter)
    /\ LET identifiers == <<OrStr(c.chat_identifier, <<>>),
                            OrStr(c.participants, <<>>),
                            OrStr(c.display_name, <<>>)>>
       IN ~\E k \in 1..3 : Contains(identifiers[k], Val(contact_filter))

\* Lines 255-262: the filter is active and no identifier contains it.
filtered_out(c) ==
    /\ Truthy(contact_filter)
    /\ LET identifiers == <<OrStr(c.chat_identifier, <<>>),
                            OrStr(c.participants, <<>>),
                            OrStr(c.display_name, <<>>)>>
       IN ~\E k \in 1..3 :
              Contains(Lower(identifiers[k]), Lower(Val(contact_filter)))

\* Lines 280-284
header(c, name, n) ==
    <<[kind |-> "rule"],
      [kind |-> "title",
       chat_type |-> IF c.chat_style = 43 THEN "Group Chat" ELSE "Conversation",
       name |-> name],
      [kind |-> "rule"],
      [kind |-> "count", n |-> n],
      [kind |-> "blank"]>>

\* dt.strftime("%Y-%m-%d %-I:%M %p"): the text is decided by the minute the
\* epoch value falls in (10^9 = 16666666 * 60 + 40).
strftime(dt) == <<dt.epoch.hi, (dt.epoch.hi * 40 + dt.epoch.lo) \div 60>>

UnknownDate == <<"Unknown date">>

\* Lines 288-289
timestamp_of(m) ==
    LET dt == apple_timestamp_to_datetime(m.message_date)
    IN IF dt = None THEN UnknownDate ELSE strftime(Val(dt))

\* fromtimestamp raises, and nothing in do_readable_export catches it
timestamp_raises(m) ==
    LET dt == apple_timestamp_to_datetime(m.message_date)
    IN dt # None /\ Val(dt).raises

Me == <<"M", "e">>

\* Line 291
sender_of(m) == IF m.is_from_me THEN Me ELSE OrStr(m.sender_id, Unknown)

AMessage == <<"a", " ", "m", "e", "s", "s", "a", "g", "e">>

target_text_mutant(m) ==
    IF m.text = None \/ Val(m.text) = <<ORC>> THEN AMessage ELSE Val(m.text)

\* Lines 296-299
target_text_of(m) ==
    LET target_text == OrStr(m.text, AMessage)
    IN IF StartsWith(target_text, <<ORC>>) THEN AMessage ELSE target_text

\* Line 300
reaction_line(m) ==
    [kind |-> "reaction", timestamp |-> timestamp_of(m), sender |-> sender_of(m),
     reaction |-> Val(format_reaction(m.associated_message_type)),
     target |-> target_text_of(m)]

File == <<"f", "i", "l", "e">>

\* Line 310
att_name_of(a) == OrStr(a.transfer_name, File)

\* f"<attachment: {copied_name}>" and f"<attachment: {att_name} (not available)>"
note(name, available) ==
    [kind |-> "attachment", name |-> name, available |-> available]

parts_of_mutant(m, notes) ==
    (IF OrStr(m.text, <<>>) # <<>>
     THEN <<[kind |-> "text", text |-> OrStr(m.text, <<>>)]>>
     ELSE <<>>) \o notes

\* Lines 321-327
parts_of(m, notes) ==
    LET text == OrStr(m.text, <<>>)
        clean_text == Strip(RemoveChar(text, ORC))
    IN (IF Strip(text) # <<>> /\ clean_text # <<>>
        THEN <<[kind |-> "text", text |-> clean_text]>>
        ELSE <<>>) \o notes

\* Lines 333-334: the parts stand for the content they are joined into
message_line(m, parts) ==
    [kind |-> "message", timestamp |-> timestamp_of(m), sender |-> sender_of(m),
     parts |-> parts]

\* f[k] = v, k added when new
Put(f, k, v) == [x \in DOMAIN f \cup {k} |-> IF x = k THEN v ELSE f[x]]

\* Lines 241-249
BeginExport ==
    /\ pc = "begin"
    /\ dirs' = makedirs(dirs, readable_dir)
    /\ total_messages' = 0
    /\ total_attachments_copied' = 0
    /\ exported_chats' = 0
    /\ chat_i' = 1
    /\ pc' = "chat"
    /\ UNCHANGED <<sanVars, tsVars, mainVars, worldVars, files, chat_name,
                   chat_dir, messages, lines,
                   msgVars, stats, runs>>

\* Lines 251-266: `continue` on a filtered-out chat or one with no messages
SkipChat ==
    /\ pc = "chat"
    /\ chat_i <= Len(get_chats(conn))
    /\ filtered_out(chat) \/ chat.msgs = <<>>
    /\ chat_name' = get_chat_display_name(chat)
    /\ chat_i' = chat_i + 1
    /\ UNCHANGED <<sanVars, tsVars, mainVars, worldVars, fsVars, pc,
                   chat_dir, messages, lines, msgVars,
                   totalVars, stats, runs>>

\* Lines 251-284: the chat is exported
StartChat ==
    /\ pc = "chat"
    /\ chat_i <= Len(get_chats(conn))
    /\ ~filtered_out(chat)
    /\ chat.msgs # <<>>
    /\ messages' \in get_messages_for_chat(chat)
    /\ chat_name' = get_chat_display_name(chat)
    /\ exported_chats' = exported_chats + 1
    /\ chat_dir' = join(readable_dir, sanitize_filename(Some(chat_name')))
    /\ dirs' = makedirs(dirs, chat_dir')
    /\ lines' = header(chat, chat_name', Len(messages'))
    /\ msg_i' = 1
    /\ pc' = "msg"
    /\ UNCHANGED <<sanVars, tsVars, mainVars, worldVars, files, chat_i,
                   attachments, att_i,
                   attachment_notes, total_messages, total_attachments_copied,
                   stats, runs>>

\* Lines 286-301: a reaction gets its line and the loop continues
ProcessReaction ==
    /\ pc = "msg"
    /\ msg_i <= Len(messages)
    /\ format_reaction(msg.associated_message_type) # None
    /\ total_messages' = total_messages + 1
    /\ IF timestamp_raises(msg)
       THEN pc' = "raised" /\ UNCHANGED <<lines, msg_i>>
       ELSE /\ lines' = Append(lines, reaction_line(msg))
            /\ msg_i' = msg_i + 1
            /\ pc' = "msg"
    /\ UNCHANGED <<sanVars, tsVars, mainVars, worldVars, fsVars, chat_i,
                   chat_name, chat_dir, messages,
                   attachments, att_i, attachment_notes,
                   total_attachments_copied, exported_chats, stats, runs>>

\* Lines 286-308: a regular message, up to the attachment loop
BeginMessage ==
    /\ pc = "msg"
    /\ msg_i <= Len(messages)
    /\ format_reaction(msg.associated_message_type) = None
    /\ total_messages' = total_messages + 1
    /\ IF timestamp_raises(msg)
       THEN pc' = "raised" /\ UNCHANGED <<attachments, att_i, attachment_notes>>
       ELSE /\ attachments' = get_attachments_for_message(msg)
            /\ attachment_notes' = <<>>
            /\ att_i' = 1
            /\ pc' = "att"
    /\ UNCHANGED <<sanVars, tsVars, mainVars, worldVars, fsVars, chatVars,
                   msg_i,
                   total_attachments_copied, exported_chats, stats, runs>>

\* Lines 309-318 with copy_attachment_file returning None at line 178 or 186
AttachmentUnavailable ==
    /\ pc = "att"
    /\ att_i <= Len(attachments)
    /\ cannot_copy(att)
    /\ dirs' = makedirs(dirs, att_dir)
    /\ attachment_notes' = Append(attachment_notes, note(att_name_of(att), FALSE))
    /\ att_i' = att_i + 1
    /\ UNCHANGED <<sanVars, tsVars, mainVars, worldVars, files, pc, chatVars,
                   msg_i, attachments,
                   totalVars, stats, runs>>

\* Lines 309-316 with shutil.copy2 succeeding
AttachmentCopied ==
    /\ pc = "att"
    /\ att_i <= Len(attachments)
    /\ ~cannot_copy(att)
    /\ dirs' = makedirs(dirs, att_dir)
    /\ LET dest_path == dest_path_of(att_dir, dest_name_of(att))
       IN /\ files' = Put(files, dest_path,
                          [kind |-> "copy", source |-> source_path_of(att),
                           complete |-> TRUE])
          /\ attachment_notes' =
                 Append(attachment_notes, note(dest_path[Len(dest_path)], TRUE))
    /\ total_attachments_copied' = total_attachments_copied + 1
    /\ att_i' = att_i + 1
    /\ UNCHANGED <<sanVars, tsVars, mainVars, worldVars, pc, chatVars, msg_i,
                   attachments, total_messages,
                   exported_chats, stats, runs>>

\* shutil.copy2's OSError escaping copy_attachment_file
AttachmentCopyFailsMutant ==
    /\ pc = "att"
    /\ att_i <= Len(attachments)
    /\ ~cannot_copy(att)
    /\ dirs' = makedirs(dirs, att_dir)
    /\ pc' = "raised"
    /\ UNCHANGED <<sanVars, tsVars, mainVars, worldVars, files, chatVars,
                   msgVars,
                   totalVars, stats, runs>>

\* Lines 309-318 with shutil.copy2 raising OSError: the destination file is
\* absent or left behind incomplete.
AttachmentCopyFails ==
    /\ pc = "att"
    /\ att_i <= Len(attachments)
    /\ ~cannot_copy(att)
    /\ dirs' = makedirs(dirs, att_dir)
    /\ LET dest_path == dest_path_of(att_dir, dest_name_of(att))
       IN \E left \in BOOLEAN :
              files' = IF left
                       THEN Put(files, dest_path,
                                [kind |-> "copy", source |-> source_path_of(att),
                                 complete |-> FALSE])
                       ELSE files
    /\ attachment_notes' = Append(attachment_notes, note(att_name_of(att), FALSE))
    /\ att_i' = att_i + 1
    /\ UNCHANGED <<sanVars, tsVars, mainVars, worldVars, pc, chatVars, msg_i,
                   attachments, totalVars,
                   stats, runs>>

\* Lines 320-334: the message's line, or none for a message with no parts
EmitLine ==
    /\ pc = "att"
    /\ att_i > Len(attachments)
    /\ LET parts == parts_of(msg, attachment_notes)
       IN lines' = IF parts = <<>> THEN lines
                   ELSE Append(lines, message_line(msg, parts))
    /\ msg_i' = msg_i + 1
    /\ pc' = "msg"
    /\ UNCHANGED <<sanVars, tsVars, mainVars, worldVars, fsVars, chat_i,
                   chat_name, chat_dir, messages,
                   attachments, att_i, attachment_notes, totalVars,
                   stats, runs>>

\* Lines 336-340: chat.txt is opened for writing and gets all the lines
WriteTranscript ==
    /\ pc = "msg"
    /\ msg_i > Len(messages)
    /\ files' = Put(files, join(chat_dir, "chat.txt"),
                    [kind |-> "transcript", lines |-> lines])
    /\ chat_i' = chat_i + 1
    /\ pc' = "chat"
    /\ UNCHANGED <<sanVars, tsVars, mainVars, worldVars, dirs, chat_name,
                   chat_dir, messages, lines,
                   msgVars, totalVars, stats, runs>>

\* Lines 346-353
FinishExport ==
    /\ pc = "chat"
    /\ chat_i > Len(get_chats(conn))
    /\ stats' = Some([conversations |-> exported_chats,
                      messages |-> total_messages,
                      attachments_copied |-> total_attachments_copied])
    /\ pc' = "done"
    /\ UNCHANGED <<sanVars, tsVars, mainVars, worldVars, fsVars, chatVars,
                   msgVars, totalVars, runs>>

(***************************************************************************)
(* The parts of the state a specification does not use                     *)
(***************************************************************************)
tsIdle == ts_pc = "off" /\ ts_in = None /\ ts_out = None

sanIdle == san_pc = "off" /\ san_in = None /\ san_out = None /\ san_again = None

\* The locals of do_readable_export before its first statement
localsFresh ==
    /\ chat_i = 0 /\ chat_name = <<>> /\ chat_dir = <<>> /\ messages = <<>>
    /\ lines = <<>> /\ msg_i = 0 /\ attachments = <<>> /\ att_i = 0
    /\ attachment_notes = <<>> /\ total_messages = 0
    /\ total_attachments_copied = 0 /\ exported_chats = 0 /\ stats = None

NoFiles == [x \in {} |-> x]

\* main is not running
mainOff(connection) ==
    /\ m_pc = "off" /\ readable_only = FALSE /\ backup_only = FALSE
    /\ db_state = "ok" /\ attachments_path_exists = FALSE
    /\ conn_state = connection /\ exit_status = None

exIdle ==
    /\ conn = <<>> /\ contact_filter = None /\ src_files = {} /\ dirs = {}
    /\ files = NoFiles /\ pc = "off" /\ runs = 0 /\ localsFresh
    /\ mainOff("unopened")

MaxRuns == 2

\* do_readable_export is called again with the same destination
Rerun ==
    /\ pc = "done"
    /\ runs < MaxRuns
    /\ runs' = runs + 1
    /\ pc' = "begin"
    /\ chat_i' = 0 /\ chat_name' = <<>> /\ chat_dir' = <<>> /\ messages' = <<>>
    /\ lines' = <<>> /\ msg_i' = 0 /\ attachments' = <<>> /\ att_i' = 0
    /\ attachment_notes' = <<>> /\ total_messages' = 0
    /\ total_attachments_copied' = 0 /\ exported_chats' = 0 /\ stats' = None
    /\ UNCHANGED <<sanVars, tsVars, mainVars, worldVars, fsVars>>

\* A step of do_readable_export
ExportStep ==
    \/ BeginExport
    \/ SkipChat
    \/ StartChat
    \/ ProcessReaction
    \/ BeginMessage
    \/ AttachmentUnavailable
    \/ AttachmentCopied
    \/ AttachmentCopyFails
    \/ EmitLine
    \/ WriteTranscript
    \/ FinishExport

NextExport == ExportStep \/ Rerun

World(c, filter, src, ds, fs) ==
    [conn |-> c, contact_filter |-> filter, src_files |-> src, dirs |-> ds,
     files |-> fs]

\* The datastore, the filter and the file systems are those of a world of W
InWorld(W) ==
    \E w \in W :
        /\ conn = w.conn
        /\ contact_filter = w.contact_filter
        /\ src_files = w.src_files
        /\ dirs = w.dirs
        /\ files = w.files

\* do_readable_export is about to run, on an open connection, in one of the
\* worlds W
InitExport(W) ==
    /\ InWorld(W)
    /\ pc = "begin"
    /\ runs = 1
    /\ localsFresh
    /\ mainOff("open")
    /\ sanIdle
    /\ tsIdle

(***************************************************************************)
(* Texts, dates and files the worlds are built from                        *)
(***************************************************************************)
Hi == <<"h", "i">>
Ok == <<"o", "k">>
Alice == <<"+", "1", "5">>
Bob == <<"b", "@", "x">>

\* A nanosecond-era raw date, k minutes after a fixed instant of 2020
Date(k) == Some(Raw(600000000 + 60 * k, 0))

PhotoName == <<"p", ".", "j">>
PhotoPath == <<"~", "/", "A", "/", "p", ".", "j">>
LostPath == <<"~", "/", "A", "/", "q", ".", "j">>

\* The source files that exist
SourceFiles == {expanduser(PhotoPath), <<"/", "v", "/", "p", ".", "j">>}

\* The orders in which the rows of a table may be stored
Shuffles(rows) ==
    LET n == Len(rows)
    IN {[i \in 1..n |-> rows[f[i]]] :
          f \in {g \in [1..n -> 1..n] : \A i, j \in 1..n : i # j => g[i] # g[j]}}

Carol == <<"c", "@", "x">>

EmptyChat(id) == Chat(id, Some(Carol), None, Some(Carol), 45, <<>>)

(***************************************************************************)
(* Specification SpecA: one conversation of three messages -- a text, a    *)
(* "Liked" reaction and a message with no body and one attachment --       *)
(* stored in any row order, alone or beside a conversation with no message.*)
(***************************************************************************)
AliceDir == join(readable_dir, Alice)

ReactionBodiesA == {None, Some(Hi), Some(Ok)}

OneAttachment ==
    {Attachment(Some(PhotoPath), Some(PhotoName)),
     Attachment(Some(PhotoPath), None),
     Attachment(Some(LostPath), Some(PhotoName)),
     Attachment(None, None)}

ScenarioARows(body, a) ==
    <<Message(1, Some(Hi), Date(1), FALSE, Some(Alice), Some(0), <<>>),
      Message(2, body, Date(2), TRUE, None, Some(2001), <<>>),
      Message(3, None, Date(3), FALSE, Some(Alice), None, <<a>>)>>

WorldsA ==
    {World(<<Chat(1, Some(Alice), None, Some(Alice), 45, rows)>> \o extra,
           None, SourceFiles, {}, NoFiles) :
        rows \in UNION {Shuffles(ScenarioARows(body, a)) :
                           body \in ReactionBodiesA, a \in OneAttachment},
        extra \in {<<>>, <<EmptyChat(2)>>}}

InitA == InitExport(WorldsA)

SpecA == InitA /\ [][NextExport]_vars

\* The row of the first chat with the given message id
RowOf(id) ==
    LET rows == conn[1].msgs
    IN rows[CHOOSE i \in 1..Len(rows) : rows[i].message_id = id]

\* The lines of a transcript after its five header lines
Rendered(dir) ==
    LET all == files[join(dir, "chat.txt")].lines
    IN SubSeq(all, 6, Len(all))

\* t1 is a strictly earlier displayed minute than t2
Earlier(t1, t2) == t1[1] < t2[1] \/ (t1[1] = t2[1] /\ t1[2] < t2[2])

ReactionCodes == (2000..2005) \cup (3000..3005)

OtherCodes == {None, Some(0), Some(1000), Some(2006)}

ReactionBodies ==
    {None, Some(<<>>), Some(<<ORC>>), Some(<<ORC, "h", "i">>), Some(Hi),
     Some(<<"h", ORC>>), Some(<<" ", ORC>>)}

TwoAttachments ==
    <<Attachment(Some(PhotoPath), Some(PhotoName)),
      Attachment(Some(LostPath), None)>>

WorldsR ==
    {World(<<Chat(1, Some(Alice), None, Some(Alice), 45,
                  <<Message(1, body, Date(1), FALSE, Some(Alice), code, <<>>),
                    Message(2, Some(Hi), Date(2), TRUE, None, None,
                            TwoAttachments)>>),
             EmptyChat(2)>>,
           None, SourceFiles, {}, NoFiles) :
        body \in ReactionBodies,
        code \in {Some(c) : c \in ReactionCodes} \cup OtherCodes}

InitR == InitExport(WorldsR)

SpecR == InitR /\ [][NextExport]_vars

\* The message the loop has just finished is a reaction
ReactionJustProcessed ==
    /\ pc = "msg"
    /\ msg_i > 1
    /\ messages[msg_i - 1].associated_message_type # None
    /\ Val(messages[msg_i - 1].associated_message_type) \in ReactionCodes

\* C1 as stated: the target is "a message" if the body is absent or is
\* exactly the placeholder character, and the body verbatim otherwise.
C1_TargetExactPlaceholder ==
    ReactionJustProcessed =>
        LET body == messages[msg_i - 1].text
            line == lines[Len(lines)]
        IN /\ line.kind = "reaction"
           /\ line.target = IF body = None \/ body = Some(<<ORC>>)
                            THEN AMessage ELSE Val(body)

\* C1 amended: the target is "a message" if the body is absent, empty or
\* begins with the placeholder character (whatever follows it), and the
\* body verbatim otherwise.
C1_TargetLeadingPlaceholder ==
    ReactionJustProcessed =>
        LET body == messages[msg_i - 1].text
            line == lines[Len(lines)]
        IN /\ line.kind = "reaction"
           /\ line.target =
                  IF body = None THEN AMessage
                  ELSE IF Val(body) = <<>> THEN AMessage
                  ELSE IF Val(body)[1] = ORC THEN AMessage
                  ELSE Val(body)

\* C1 witness: a reaction whose body is the placeholder followed by text has
\* got its line, with "a message" as the target.
C1_Witness ==
    /\ ReactionJustProcessed
    /\ messages[msg_i - 1].text = Some(<<ORC, "h", "i">>)
    /\ lines[Len(lines)].target = AMessage

(***************************************************************************)
(* Specification SpecE: messages whose body is null, empty, blank or made  *)
(* of the placeholder only, with zero to two attachment records, in two    *)
(* conversations beside one with no message, under several filters.        *)
(***************************************************************************)
BobDir == join(readable_dir, Bob)

BodiesE ==
    {None, Some(<<>>), Some(<<" ">>), Some(<<ORC>>), Some(<<" ", ORC, " ">>),
     Some(Hi), Some(<<ORC, "h", "i">>)}

AttachmentsE ==
    {<<>>, <<Attachment(Some(PhotoPath), Some(PhotoName))>>,
     <<Attachment(Some(LostPath), None)>>, TwoAttachments}

FiltersE == {None, Some(<<"1">>), Some(<<"@">>), Some(<<"z">>)}

WorldsE ==
    {World(<<Chat(1, Some(Alice), None, Some(Alice), 45,
                  <<Message(1, body, Date(1), FALSE, Some(Alice), Some(0), atts),
                    Message(2, Some(Hi), Date(2), TRUE, None, Some(2001), <<>>)>>),
             Chat(2, Some(Bob), None, Some(Bob), 45,
                  <<Message(3, body2, Date(1), FALSE, Some(Bob), None, <<>>)>>),
             EmptyChat(3)>>,
           filter, SourceFiles, {}, NoFiles) :
        body \in BodiesE, atts \in AttachmentsE, body2 \in {None, Some(Ok)},
        filter \in FiltersE}

InitE == InitExport(WorldsE)

SpecE == InitE /\ [][NextExport]_vars

\* A non-reaction message with a null body, or one that is empty once the
\* placeholder and the surrounding whitespace are removed, and no attachment
IsEmptyMessage(m) ==
    /\ format_reaction(m.associated_message_type) = None
    /\ IF m.text = None THEN TRUE
       ELSE Strip(RemoveChar(Val(m.text), ORC)) = <<>>
    /\ Len(m.atts) = 0

\* The conversations an export visits: not filtered out, with a message
Exported(c) == ~filtered_out(c) /\ c.msgs # <<>>

DirOf(c) == join(readable_dir, sanitize_filename(Some(get_chat_display_name(c))))

\* The number of empty messages among the rows
EmptyCount(rows) == Cardinality({i \in 1..Len(rows) : IsEmptyMessage(rows[i])})

\* The message counts of the exported conversations, summed
RECURSIVE ExportedMessages(_)
ExportedMessages(chats) ==
    IF chats = <<>> THEN 0
    ELSE (IF Exported(Head(chats)) THEN Len(Head(chats).msgs) ELSE 0)
         + ExportedMessages(Tail(chats))

\* C3: an empty message adds no line -- every exported conversation's
\* transcript holds one line per message that is not empty -- and yet the
\* messages total is the sum of the message counts of the exported
\* conversations.
C3_SuppressedButCounted ==
    pc = "done" =>
        /\ \A k \in 1..Len(conn) :
               Exported(conn[k]) =>
                   Len(Rendered(DirOf(conn[k]))) =
                       Len(conn[k].msgs) - EmptyCount(conn[k].msgs)
        /\ Val(stats).messages = ExportedMessages(conn)

\* C3 witness: an export has ended that visited a blank-bodied message with
\* no attachment, so the total exceeds the lines emitted.
C3_Witness ==
    /\ pc = "done"
    /\ Exported(conn[1])
    /\ conn[1].msgs[1].text = Some(<<" ", ORC, " ">>)
    /\ IsEmptyMessage(conn[1].msgs[1])
    /\ Len(Rendered(AliceDir)) = 1
    /\ Val(stats).messages >= 2

(***************************************************************************)
(* Specification SpecC: a message with two attachment records whose        *)
(* destination names collide with each other, with names the collision     *)
(* scheme produces, and with files an earlier export left behind.          *)
(***************************************************************************)
PhotoName1 == <<"p", "_", "1", ".", "j">>
HiddenName == <<".", "h">>
OtherPhotoPath == <<"/", "v", "/", "p", ".", "j">>

AttachmentsC ==
    {Attachment(Some(PhotoPath), Some(PhotoName)),
     Attachment(Some(OtherPhotoPath), None),
     Attachment(Some(PhotoPath), Some(PhotoName1)),
     Attachment(Some(LostPath), Some(PhotoName)),
     Attachment(None, None),
     Attachment(Some(PhotoPath), Some(HiddenName))}

AliceAttDir == join(AliceDir, "attachments")

OldCopy == [kind |-> "copy", source |-> <<"o", "l", "d">>, complete |-> TRUE]

\* What an earlier export may have left in the conversation's folder
LeftBehind ==
    {[ds |-> {}, fs |-> NoFiles],
     [ds |-> makedirs({}, AliceAttDir),
      fs |-> Put(NoFiles, join(AliceAttDir, PhotoName), OldCopy)],
     [ds |-> makedirs({}, AliceAttDir),
      fs |-> Put(Put(NoFiles, join(AliceAttDir, PhotoName), OldCopy),
                 join(AliceAttDir, PhotoName1), OldCopy)]}

WorldsC ==
    {World(<<Chat(1, Some(Alice), None, Some(Alice), 45,
                  <<Message(1, Some(Hi), Date(1), FALSE, Some(Alice), Some(0),
                            <<a1, a2>>),
                    Message(2, Some(Hi), Date(2), TRUE, None, Some(2000), <<>>)>>),
             EmptyChat(2)>>,
           None, SourceFiles, left.ds, left.fs) :
        a1 \in AttachmentsC, a2 \in AttachmentsC, left \in LeftBehind}

InitC == InitExport(WorldsC)

SpecC == InitC /\ [][NextExport]_vars

\* A file of an attachments folder
IsAttachmentFile(path) == Len(path) = 4

\* Every file an attachments folder holds is still there, unchanged, after
\* the step; so is every file at all while an attachment is materialized.
NoClobber ==
    \A path \in DOMAIN files :
        (IsAttachmentFile(path) \/ pc = "att") =>
            (path \in DOMAIN files' /\ files'[path] = files[path])

\* The name in the attachments folder is taken
Taken(name) ==
    join(att_dir, name) \in DOMAIN files \/ join(att_dir, name) \in dirs

\* The preferred name: the transfer name, else the source's base name
Preferred(a) ==
    IF a.transfer_name # None /\ Val(a.transfer_name) # <<>>
    THEN Val(a.transfer_name)
    ELSE basename(source_path_of(a))

\* A step that stores a file stores exactly one, under the preferred name if
\* it is free, else under the first free name of base_1.ext, base_2.ext, ...
ChosenName ==
    (pc = "att" /\ DOMAIN files' # DOMAIN files) =>
        \E name \in {Preferred(att)}
                    \cup {numbered(Preferred(att), k) :
                            k \in 1..(Cardinality(DOMAIN files) + 1)} :
            /\ DOMAIN files' = DOMAIN files \cup {join(att_dir, name)}
            /\ ~Taken(name)
            /\ name # Preferred(att) =>
                   /\ Taken(Preferred(att))
                   /\ \E k \in 1..(Cardinality(DOMAIN files) + 1) :
                          /\ name = numbered(Preferred(att), k)
                          /\ \A j \in 1..(k - 1) : Taken(numbered(Preferred(att), j))

\* Two records with the destination name p.j, copied into an empty folder
\* by the first export, are the files p.j and p_1.j.
SameNameTwice ==
    (/\ pc = "att" /\ att_i = 3 /\ runs = 1
     /\ Cardinality({p \in DOMAIN files : IsAttachmentFile(p)}) = 2
     /\ attachment_notes[1].available /\ attachment_notes[2].available
     /\ Preferred(attachments[1]) = PhotoName
     /\ Preferred(attachments[2]) = PhotoName) =>
        /\ attachment_notes[1].name = PhotoName
        /\ attachment_notes[2].name = PhotoName1
        /\ files[join(att_dir, PhotoName)].source = source_path_of(attachments[1])
        /\ files[join(att_dir, PhotoName1)].source = source_path_of(attachments[2])

\* C4: materializing an attachment never overwrites or deletes a file of
\* the destination: the file goes to the preferred name if that is free,
\* else to the first free name of base_1.ext, base_2.ext, ...; two records
\* of one name become two files, the second base_1.ext; a later export
\* leaves the earlier copies as they are.
C4_NeverOverwrites == []SameNameTwice /\ [][NoClobber /\ ChosenName]_vars

\* C4 witness: a second export has ended; the first export's p.j is still
\* the copy it made, the second export's copy of the same record is p_1.j,
\* and chat.txt holds the second export's lines.
C4_Witness ==
    /\ pc = "done"
    /\ runs = 2
    /\ DOMAIN files = {join(AliceDir, "chat.txt"), join(AliceAttDir, PhotoName),
                       join(AliceAttDir, PhotoName1)}
    /\ files[join(AliceAttDir, PhotoName)].source = expanduser(PhotoPath)
    /\ files[join(AliceAttDir, PhotoName1)].source = expanduser(PhotoPath)
    /\ files[join(AliceAttDir, PhotoName1)].complete
    /\ \E i \in 1..Len(Rendered(AliceDir)) :
           /\ Rendered(AliceDir)[i].kind = "message"
           /\ \E k \in 1..Len(Rendered(AliceDir)[i].parts) :
                  Rendered(AliceDir)[i].parts[k] = note(PhotoName1, TRUE)

\* The record has no filename, or its resolved source path does not exist
Unmaterializable(a) ==
    IF a.filename = None THEN TRUE
    ELSE IF Val(a.filename) = <<>> THEN TRUE
    ELSE source_path_of(a) \notin src_files

\* The name a "(not available)" part shows
ShownName(a) ==
    IF a.transfer_name # None /\ Val(a.transfer_name) # <<>>
    THEN Val(a.transfer_name)
    ELSE File

\* The attachment parts of a transcript line, in order
AttachmentParts(line) ==
    IF line.kind = "message"
    THEN SelectSeq(line.parts, LAMBDA part : part.kind = "attachment")
    ELSE <<>>

\* The attachment parts of the lines that say the file was copied
RECURSIVE CopiedParts(_)
CopiedParts(T) ==
    IF T = <<>> THEN 0
    ELSE Len(SelectSeq(AttachmentParts(Head(T)), LAMBDA part : part.available))
         + CopiedParts(Tail(T))

RECURSIVE CopiedPartsOfExported(_)
CopiedPartsOfExported(chats) ==
    IF chats = <<>> THEN 0
    ELSE (IF Exported(Head(chats)) THEN CopiedParts(Rendered(DirOf(Head(chats))))
          ELSE 0)
         + CopiedPartsOfExported(Tail(chats))

\* The message has its line, with one attachment part per record, and a
\* "(not available)" part for each record that cannot be materialized
HasItsLine(T, m) ==
    \E i \in 1..Len(T) :
        /\ T[i].kind = "message"
        /\ T[i].timestamp = timestamp_of(m)
        /\ Len(AttachmentParts(T[i])) = Len(m.atts)
        /\ \A k \in 1..Len(m.atts) :
               Unmaterializable(m.atts[k]) =>
                   AttachmentParts(T[i])[k] = note(ShownName(m.atts[k]), FALSE)

\* C7: an attachment that cannot be materialized never aborts the export.
\* The export is never ended by an exception; the attachment's part says "(not
\* available)" under the record's name, and
\* a part says "copied" only of a complete file; at the end every message
\* with attachment records has its line, and the attachments-copied total
\* counts the copied parts only.
C7_SoftFailure ==
    /\ pc \in {"begin", "chat", "msg", "att", "done"}
    /\ (pc = "att" /\ att_i > 1) =>
           LET a == attachments[att_i - 1]
               n == attachment_notes[att_i - 1]
           IN /\ Len(attachment_notes) = att_i - 1
              /\ Unmaterializable(a) => ~n.available
              /\ ~n.available => n.name = ShownName(a)
              /\ n.available =>
                     /\ join(att_dir, n.name) \in DOMAIN files
                     /\ files[join(att_dir, n.name)].complete
    /\ pc = "done" =>
           /\ \A c \in 1..Len(conn) :
                  Exported(conn[c]) =>
                      \A r \in 1..Len(conn[c].msgs) :
                          (/\ format_reaction(conn[c].msgs[r].associated_message_type) = None
                           /\ Len(conn[c].msgs[r].atts) > 0) =>
                              HasItsLine(Rendered(DirOf(conn[c])), conn[c].msgs[r])
           /\ Val(stats).attachments_copied = CopiedPartsOfExported(conn)

\* C7 witness: an export has ended in which the first attachment's copy
\* raised, leaving an incomplete file, the second was copied, and the
\* message's line holds both parts.
C7_Witness ==
    /\ pc = "done"
    /\ runs = 1
    /\ Val(stats).attachments_copied = 1
    /\ join(AliceAttDir, PhotoName) \in DOMAIN files
    /\ ~files[join(AliceAttDir, PhotoName)].complete
    /\ \E i \in 1..Len(Rendered(AliceDir)) :
           AttachmentParts(Rendered(AliceDir)[i])
               = <<note(PhotoName, FALSE), note(PhotoName1, TRUE)>>

(***************************************************************************)
(* Specification SpecF: a conversation whose identifier, participant list  *)
(* and display name are each absent or present, in either letter case,     *)
(* under filters that occur in a field, in the synthesized "Chat 1" name   *)
(* only, or in a message body only.                                        *)
(***************************************************************************)
IdentifiersF == {None, Some(Alice), Some(<<"a", "B">>)}
ParticipantsF == {None, Some(Alice), Some(<<"A", "b", ",", " ", "+", "1">>)}
DisplayNamesF == {None, Some(<<>>), Some(<<"A", "B", " ", "c">>)}

FiltersF ==
    {None, Some(<<>>), Some(<<"+", "1">>), Some(<<"a", "b">>), Some(<<"A", "B">>),
     Some(<<"c", "h", "a", "t">>), Some(<<"1">>), Some(Hi)}

WorldsF ==
    {World(<<Chat(1, ident, name, parts, 43,
                  <<Message(1, Some(Hi), Date(1), FALSE, Some(Alice), Some(0),
                            <<Attachment(Some(PhotoPath), Some(PhotoName))>>),
                    Message(2, Some(Hi), Date(2), TRUE, None, Some(3001), <<>>)>>),
             Chat(2, Some(Bob), None, Some(Bob), 45,
                  <<Message(3, None, Date(1), FALSE, Some(Bob), None,
                            <<Attachment(Some(LostPath), None)>>)>>),
             EmptyChat(3)>>,
           filter, SourceFiles, {}, NoFiles) :
        ident \in IdentifiersF, parts \in ParticipantsF, name \in DisplayNamesF,
        filter \in FiltersF}

InitF == InitExport(WorldsF)

SpecF == InitF /\ [][NextExport]_vars

\* An absent field is the empty string
FieldText(o) == IF o = None THEN <<>> ELSE Val(o)

\* f occurs in text, letter case ignored
OccursIn(f, text) ==
    \E i \in 0..(Len(text) - Len(f)) :
        \A k \in 1..Len(f) : LowerChar(text[i + k]) = LowerChar(f[k])

\* The filter occurs in the conversation's canonical identifier, participant
\* list or stored display name
Matches(c, f) ==
    \/ OccursIn(f, FieldText(c.chat_identifier))
    \/ OccursIn(f, FieldText(c.participants))
    \/ OccursIn(f, FieldText(c.display_name))

\* The number of conversations with a message that match the filter
MatchingChats(f) ==
    Cardinality({k \in 1..Len(conn) : conn[k].msgs # <<>> /\ Matches(conn[k], f)})

RECURSIVE MatchingMessages(_, _)
MatchingMessages(chats, f) ==
    IF chats = <<>> THEN 0
    ELSE (IF Matches(Head(chats), f) THEN Len(Head(chats).msgs) ELSE 0)
         + MatchingMessages(Tail(chats), f)

\* At the end: a conversation with a message has its folder and transcript
\* exactly if it matches, and the totals count the matching ones only.
FilterDecides ==
    (pc = "done" /\ contact_filter # None) =>
        LET f == Val(contact_filter)
        IN /\ \A k \in 1..Len(conn) :
                  conn[k].msgs # <<>> =>
                      /\ Matches(conn[k], f) <=>
                             join(DirOf(conn[k]), "chat.txt") \in DOMAIN files
                      /\ Matches(conn[k], f) <=> DirOf(conn[k]) \in dirs
           /\ Val(stats).conversations = MatchingChats(f)
           /\ Val(stats).messages = MatchingMessages(conn, f)
           /\ MatchingChats(f) = 0 => Val(stats).attachments_copied = 0

\* The step that passes over a conversation that does not match leaves the
\* output tree and the three totals as they are.
ExcludedAddsNothing ==
    (/\ pc = "chat" /\ chat_i <= Len(conn) /\ contact_filter # None
     /\ ~Matches(conn[chat_i], Val(contact_filter))) =>
        /\ pc' = "chat"
        /\ chat_i' = chat_i + 1
        /\ UNCHANGED <<fsVars, totalVars>>

\* C5: with a filter, a conversation that has a message is exported if and
\* only if the filter, letter case ignored, occurs in its canonical
\* identifier, participant list or stored display name (an absent field
\* being empty); bodies and the "Chat {id}" name never match, and an
\* excluded conversation adds nothing to the output tree or the totals.
C5_FilterContract == []FilterDecides /\ [][ExcludedAddsNothing]_vars

\* C5 witness: an export has ended whose filter, in upper case, occurs in
\* mixed case in the participant list and in no other field, and exported
\* that conversation.
C5_Witness ==
    /\ pc = "done"
    /\ contact_filter = Some(<<"A", "B">>)
    /\ conn[1].chat_identifier = None
    /\ conn[1].display_name = None
    /\ conn[1].participants = Some(<<"A", "b", ",", " ", "+", "1">>)
    /\ Val(stats).conversations = 1
    /\ Val(stats).attachments_copied = 1

\* An export has ended whose filter occurs in a message body and in the
\* synthesized name only: nothing was exported.
C5_BodyOnlySeen ==
    /\ pc = "done"
    /\ contact_filter \in {Some(Hi), Some(<<"c", "h", "a", "t">>)}
    /\ Val(stats).conversations = 0
    /\ DOMAIN files = {}

(***************************************************************************)
(* Specification SpecD: two conversations whose display names are equal    *)
(* after sanitizing, or not, each with an attachment named p.j.            *)
(***************************************************************************)
DisplayNamesD ==
    {<<"a", ":", "b">>, <<"a", " ", "b">>, <<"a", "_", "_", "b">>, <<"a", "b">>}

SecondAttachmentsD ==
    {<<Attachment(Some(OtherPhotoPath), None)>>,
     <<Attachment(Some(LostPath), Some(PhotoName))>>}

WorldsD ==
    {World(<<Chat(1, Some(Alice), Some(name1), Some(Alice), 45,
                  <<Message(1, Some(Hi), Date(1), FALSE, Some(Alice), Some(0),
                            <<Attachment(Some(PhotoPath), Some(PhotoName))>>)>>),
             EmptyChat(2),
             Chat(3, Some(Bob), Some(name2), Some(Bob), 43,
                  <<Message(2, Some(Ok), Date(1), FALSE, Some(Bob), Some(0), atts),
                    Message(3, None, Date(2), TRUE, None, Some(2004), <<>>)>>)>>,
           None, SourceFiles, {}, NoFiles) :
        name1 \in DisplayNamesD, name2 \in DisplayNamesD,
        atts \in SecondAttachmentsD}

InitD == InitExport(WorldsD)

SpecD == InitD /\ [][NextExport]_vars

\* The sanitized resolved display name of a conversation
SafeName(c) == sanitize_filename(Some(get_chat_display_name(c)))

\* The conversation folders of the output tree
ChatDirs == {d \in dirs : Len(d) = 2}

\* C10: when the names of two exported conversations of one run sanitize to
\* the same string, both count in the conversations total, there is one
\* folder and one transcript, the transcript is the later conversation's,
\* and the attachments of both are in the one attachments folder, the
\* second under the collision name.
C10_SharedDirectory ==
    (pc = "done" /\ SafeName(conn[1]) = SafeName(conn[3])) =>
        LET dir == join(readable_dir, SafeName(conn[1]))
            all == files[join(dir, "chat.txt")].lines
        IN /\ Val(stats).conversations = 2
           /\ ChatDirs = {dir}
           /\ {p \in DOMAIN files : Len(p) = 3} = {join(dir, "chat.txt")}
           /\ all[2].name = Val(conn[3].display_name)
           /\ all[2].chat_type = "Group Chat"
           /\ all[4].n = Len(conn[3].msgs)
           /\ Len(all) = 5 + 2
           /\ all[6].parts[1].text = Ok
           /\ \A p \in DOMAIN files :
                  IsAttachmentFile(p) => SubSeq(p, 1, 3) = join(dir, "attachments")
           /\ (runs = 1 /\ Val(stats).attachments_copied = 2) =>
                  /\ files[join(join(dir, "attachments"), PhotoName)].source
                         = expanduser(PhotoPath)
                  /\ files[join(join(dir, "attachments"), PhotoName1)].source
                         = OtherPhotoPath

\* C10 witness: two conversations named "a:b" and "a__b" have been
\* exported into the one folder "a b", with both attachments copied.
C10_Witness ==
    /\ pc = "done"
    /\ runs = 1
    /\ conn[1].display_name = Some(<<"a", ":", "b">>)
    /\ conn[3].display_name = Some(<<"a", "_", "_", "b">>)
    /\ ChatDirs = {join(readable_dir, <<"a", " ", "b">>)}
    /\ Val(stats).conversations = 2
    /\ Val(stats).attachments_copied = 2

(***************************************************************************)
(* main                                                                    *)
(***************************************************************************)
dest == <<>>
backup_dir == <<"backup">>

\* Lines 404-408: both flags given
MainArgsConflict ==
    /\ m_pc = "start"
    /\ readable_only /\ backup_only
    /\ exit_status' = Some(1)
    /\ m_pc' = "exited"
    /\ UNCHANGED <<sanVars, tsVars, exVars, argVars, conn_state>>

\* Lines 404-417: the destination directory is made
MainMakeDest ==
    /\ m_pc = "start"
    /\ ~(readable_only /\ backup_only)
    /\ dirs' = makedirs(dirs, dest)
    /\ m_pc' = IF readable_only THEN "readable" ELSE "backup"
    /\ UNCHANGED <<sanVars, tsVars, worldVars, files, pc, chatVars, msgVars,
                   totalVars, stats, runs, argVars, conn_state, exit_status>>

\* Lines 420-422 and 208-214: shutil.copy2 of a missing or unreadable
\* database raises after backup_dir was made; nothing catches it.
RawBackupFails ==
    /\ m_pc = "backup"
    /\ db_state \in {"missing", "denied"}
    /\ dirs' = makedirs(dirs, backup_dir)
    /\ exit_status' = Some(1)
    /\ m_pc' = "exited"
    /\ UNCHANGED <<sanVars, tsVars, worldVars, files, pc, chatVars, msgVars,
                   totalVars, stats, runs, argVars, conn_state>>

\* Lines 420-423 and 206-236: the database file and the attachments folder
\* are copied
RawBackupDone ==
    /\ m_pc = "backup"
    /\ db_state \in {"ok", "corrupt"}
    /\ dirs' = IF attachments_path_exists
               THEN makedirs(dirs, join(backup_dir, "Attachments"))
               ELSE makedirs(dirs, backup_dir)
    /\ files' = Put(files, join(backup_dir, "chat.db"), [kind |-> "database"])
    /\ m_pc' = IF backup_only THEN "info" ELSE "readable"
    /\ UNCHANGED <<sanVars, tsVars, worldVars, pc, chatVars, msgVars,
                   totalVars, stats, runs, argVars, conn_state, exit_status>>

\* Lines 426-428 and 63-67: no file at db_path
OpenDbMissing ==
    /\ m_pc = "readable"
    /\ db_state = "missing"
    /\ exit_status' = Some(1)
    /\ m_pc' = "exited"
    /\ UNCHANGED <<sanVars, tsVars, exVars, argVars, conn_state>>

\* Lines 69-83: connecting or the probe query fails; sys.exit(1), or the
\* error is raised again and ends the process
OpenDbFails ==
    /\ m_pc = "readable"
    /\ db_state \in {"denied", "corrupt"}
    /\ exit_status' = Some(1)
    /\ m_pc' = "exited"
    /\ UNCHANGED <<sanVars, tsVars, exVars, argVars, conn_state>>

\* Lines 69-75 and 430: the connection is open and probed, and
\* do_readable_export is called
OpenDbOk ==
    /\ m_pc = "readable"
    /\ db_state = "ok"
    /\ conn_state' = "open"
    /\ pc' = "begin"
    /\ m_pc' = "export"
    /\ UNCHANGED <<sanVars, tsVars, worldVars, fsVars, chatVars, msgVars,
                   totalVars, stats, runs, argVars, exit_status>>

\* Lines 430-433: do_readable_export returns, or ends by an exception; the
\* connection is closed either way
MainExportEnds ==
    /\ m_pc = "export"
    /\ pc \in {"done", "raised"}
    /\ conn_state' = "closed"
    /\ IF pc = "raised"
       THEN exit_status' = Some(1) /\ m_pc' = "exited"
       ELSE exit_status' = exit_status /\ m_pc' = "info"
    /\ UNCHANGED <<sanVars, tsVars, exVars, argVars>>

\* Lines 436-437 and 356-367
WriteExportInfo ==
    /\ m_pc = "info"
    /\ files' = Put(files, join(dest, "export_info.json"),
                    [kind |-> "info", stats |-> stats])
    /\ exit_status' = Some(0)
    /\ m_pc' = "exited"
    /\ UNCHANGED <<sanVars, tsVars, worldVars, dirs, pc, chatVars, msgVars,
                   totalVars, stats, runs, argVars, conn_state>>

NextMain ==
    \/ MainArgsConflict
    \/ MainMakeDest
    \/ RawBackupFails
    \/ RawBackupDone
    \/ OpenDbMissing
    \/ OpenDbFails
    \/ OpenDbOk
    \/ ExportStep
    \/ MainExportEnds
    \/ WriteExportInfo

(***************************************************************************)
(* Specification SpecMain: main under every combination of the two flags,  *)
(* with the datastore present, missing, unreadable or not a database, and  *)
(* an empty destination.                                                   *)
(***************************************************************************)
DbStates == {"ok", "missing", "denied", "corrupt"}

\* A raw date before 2001 whose magnitude is above 1e12
EarlyDate == Some(Raw(-600000000, 0))

WorldsMain ==
    {World(<<Chat(1, Some(Alice), None, Some(Alice), 45,
                  ScenarioARows(Some(Hi), a)),
             EmptyChat(2),
             Chat(3, Some(Bob), None, Some(Bob), 45,
                  <<Message(4, Some(Ok), date, TRUE, None, None, <<>>)>>)>>,
           filter, SourceFiles, {}, NoFiles) :
        a \in OneAttachment, filter \in {None, Some(<<"1">>)},
        date \in {Date(1), EarlyDate}}

InitMain ==
    /\ InWorld(WorldsMain)
    /\ pc = "off"
    /\ runs = 1
    /\ localsFresh
    /\ m_pc = "start"
    /\ readable_only \in BOOLEAN
    /\ backup_only \in BOOLEAN
    /\ db_state \in DbStates
    /\ attachments_path_exists \in BOOLEAN
    /\ conn_state = "unopened"
    /\ exit_status = None
    /\ sanIdle
    /\ tsIdle

SpecMain == InitMain /\ [][NextMain]_vars

\* A directory was made under the destination, or a file was written there
WorkBegun == (\E d \in dirs : d # dest) \/ DOMAIN files # {}

\* C8: with the datastore missing or inaccessible the process ends with a
\* non-zero status before any export work -- under every combination of the
\* flags, no directory is made under the destination and no file is copied
\* or written before the datastore has been opened and probed.
C8_NothingBeforeOpen ==
    /\ WorkBegun => conn_state # "unopened"
    /\ (m_pc = "exited" /\ db_state # "ok") =>
           (exit_status # Some(0) /\ ~WorkBegun)

\* What does hold of main: do_readable_export only ever runs on an opened
\* connection, and a run that needs the datastore and cannot open it ends
\* with a non-zero status.
CoreRunsAfterOpen ==
    /\ pc # "off" => conn_state # "unopened"
    /\ (m_pc = "exited" /\ db_state # "ok" /\ ~(readable_only /\ backup_only))
           => exit_status = Some(1) \/ (backup_only /\ db_state = "corrupt")

(***************************************************************************)
(* Specification SpecTs: apple_timestamp_to_datetime on raw values around  *)
(* zero and around both thresholds, of either sign.                        *)
(***************************************************************************)
TsSpread == 2

TsCenters == {0 - NanoThresholdQ, 0 - SecThresholdQ, 0, SecThresholdQ, NanoThresholdQ}

TsInputs ==
    {None}
    \cup {Some(Raw(c + d, r)) : c \in TsCenters, d \in (0 - TsSpread)..TsSpread,
                                 r \in {0, 1, Billion - 1}}
    \cup {Some(Raw(700000000, 5)), Some(Raw(-700000000, 5))}

(***************************************************************************)
(* Specification SpecSan: sanitize_filename applied once, then again to    *)
(* its own result.                                                         *)
(***************************************************************************)
MaxSuffix == 3
PadSpread == 2

SanChars == {"a", ":", "_", " "}

RECURSIVE Strings(_, _)
Strings(chars, n) ==
    IF n = 0 THEN {<<>>}
    ELSE LET shorter == Strings(chars, n - 1)
         IN shorter \cup {Append(s, c) : s \in {t \in shorter : Len(t) = n - 1},
                                         c \in chars}

Pad(n) == [i \in 1..n |-> "a"]

\* Short names, and names whose length is around the truncation limit.
SanInputs ==
    {None}
    \cup {Some(Pad(n) \o s) :
            n \in {0} \cup ((MaxNameLen - PadSpread)..(MaxNameLen + 1)),
            s \in Strings(SanChars, MaxSuffix)}


InitSan ==
    /\ san_pc = "in"
    /\ san_in \in SanInputs
    /\ san_out = None
    /\ san_again = None
    /\ tsIdle
    /\ exIdle

SanitizeOnce ==
    /\ san_pc = "in"
    /\ san_out' = Some(sanitize_filename(san_in))
    /\ san_pc' = "once"
    /\ UNCHANGED <<san_in, san_again, tsVars, exVars, mainVars>>

SanitizeAgain ==
    /\ san_pc = "once"
    /\ san_again' = Some(sanitize_filename(san_out))
    /\ san_pc' = "twice"
    /\ UNCHANGED <<san_in, san_out, tsVars, exVars, mainVars>>

NextSan == SanitizeOnce \/ SanitizeAgain

SpecSan == InitSan /\ [][NextSan]_vars

\* C9: the sanitizer is idempotent: sanitizing a sanitized name returns the
\* sanitized name, for every input.
C9_SanitizeIdempotent == san_pc = "twice" => san_again = san_out

\* C9 witness: a name longer than the limit whose 100-character prefix ends
\* in whitespace has been sanitized twice.
C9_Witness ==
    /\ san_pc = "twice"
    /\ san_in # None
    /\ Len(Val(san_in)) > MaxNameLen
    /\ Len(Val(san_out)) < MaxNameLen
    /\ Len(Val(san_out)) > 7

InitTs ==
    /\ ts_pc = "in"
    /\ ts_in \in TsInputs
    /\ ts_out = None
    /\ sanIdle
    /\ exIdle

\* One call of apple_timestamp_to_datetime.
Normalize ==
    /\ ts_pc = "in"
    /\ ts_out' = apple_timestamp_to_datetime(ts_in)
    /\ ts_pc' = "done"
    /\ UNCHANGED <<ts_in, sanVars, exVars, mainVars>>

\* The caller drops the result; the next call sees another raw value.
NextCall ==
    /\ ts_pc = "done"
    /\ ts_pc' = "in"
    /\ ts_in' \in TsInputs
    /\ ts_out' = None
    /\ UNCHANGED <<sanVars, exVars, mainVars>>

NextTs == Normalize \/ NextCall

SpecTs == InitTs /\ [][NextTs]_vars

\* |timestamp| > 1e12
MagnitudeAboveThreshold(t) ==
    GreaterThanQ(t, SecThresholdQ) \/ LessThanMinusQ(t, SecThresholdQ)

\* C6: null or zero gives "no timestamp"; a non-zero value of magnitude above
\* 1e12 (of either sign) is divided by 1e9 before the offset is added, every
\* other non-zero value has the offset added unscaled.
C6_MagnitudeRule ==
    ts_pc = "done" =>
        IF ts_in = None \/ IsZeroTs(Val(ts_in)) THEN ts_out = None
        ELSE /\ ts_out # None
             /\ Val(ts_out).epoch =
                    IF MagnitudeAboveThreshold(Val(ts_in))
                    THEN ScaledSum(Val(ts_in))
                    ELSE UnscaledSum(Val(ts_in))

\* What the code does with C6's inputs: only values above +1e12 are scaled;
\* a negative value of any magnitude has the offset added unscaled.
C6_SignedRule ==
    ts_pc = "done" =>
        IF ts_in = None \/ IsZeroTs(Val(ts_in)) THEN ts_out = None
        ELSE /\ ts_out # None
             /\ Val(ts_out).epoch =
                    IF GreaterThanQ(Val(ts_in), SecThresholdQ)
                    THEN ScaledSum(Val(ts_in))
                    ELSE UnscaledSum(Val(ts_in))

\* A negative raw value of magnitude above 1e12 has been normalized, and
\* fromtimestamp raises on the unscaled sum.
C6_NegativeLargeSeen ==
    /\ ts_pc = "done"
    /\ ts_in # None
    /\ LessThanMinusQ(Val(ts_in), SecThresholdQ)
    /\ Val(ts_out).raises

====
